---- MODULE Spec2Model ----
(***************************************************************************)
(* MediRisk AI (src/src/app.py): a Streamlit page.  Every user interaction *)
(* re-executes the script top to bottom; only st.session_state and the     *)
(* cached model registry survive from one execution to the next.           *)
(*                                                                         *)
(* Units.  A probability is an integer number of hundredths (40 = 0.40).   *)
(* A Python number is a record [t, v]: an int k is [t |-> "int", v |-> k], *)
(* a float x is [t |-> "float", v |-> 10 * x] (tenths).  An importance     *)
(* score is a rational [n, d]; d = 0 is the IEEE NaN that 0.0/0.0 yields.  *)
(***************************************************************************)
EXTENDS Integers, Sequences, FiniteSets, TLC

VARIABLES
    artifacts,      \* models/*.pkl on disk: display name -> what joblib.load finds
    all_models,     \* the cached result of load_models()
    inputs,         \* the 13 input widgets' current values
    model_name,     \* the "Model Selection" selectbox
    analysis_run,   \* st.session_state.analysis_run
    risk_prob,      \* st.session_state.risk_prob
    feature_imp,    \* st.session_state.feature_imp
    button,         \* what st.button("Run Risk Assessment") returned in this execution
    input_df,       \* script local: the encoded row
    model,          \* script local: all_models[model_name]
    prob,           \* script local: the probability
    importance,     \* script local: the sorted importance mapping
    message,        \* the st.error banner of this execution
    detail,         \* the str(e) shown under the banner
    shown,          \* the rendered result pane of this execution
    runs,           \* history: number of button presses so far
    risk_prob_run,  \* history: the press that wrote risk_prob (0: none)
    feature_imp_run \* history: the press that wrote feature_imp (0: none)

vars == <<artifacts, all_models, inputs, model_name, analysis_run, risk_prob,
          feature_imp, button, input_df, model, prob, importance, message,
          detail, shown, runs, risk_prob_run, feature_imp_run>>

-----------------------------------------------------------------------------
(* Bounds *)

MaxRuns == 3    \* button presses explored in one session
MaxCoef == 2    \* magnitude of a model's raw coefficient / importance weight

-----------------------------------------------------------------------------
(* Python values *)

PyInt(k) == [t |-> "int", v |-> k]

\* float(k) of a Python int k
FloatOfInt(k) == [t |-> "float", v |-> 10 * k]

\* float(x) of a Python float given in tenths
FloatOfFloat(x) == [t |-> "float", v |-> x]

\* the numeric value of a Python number, in tenths
Val(x) == IF x.t = "int" THEN 10 * x.v ELSE x.v

FEATURE_COLUMNS ==
    <<"age", "sex", "cp", "trestbps", "chol",
      "fbs", "restecg", "thalach", "exang",
      "oldpeak", "slope", "ca", "thal">>

ModelNames == {"Logistic Regression", "Decision Tree", "Random Forest"}

-----------------------------------------------------------------------------
(* Input preprocessing *)

DictGet_zero(map, key, default) == IF key \in DOMAIN map THEN map[key] ELSE 0

\* dict.get(key, default) on a dict given as a function
DictGet(map, key, default) == IF key \in DOMAIN map THEN map[key] ELSE default

cp_map ==
    [k \in {"Typical Angina", "Atypical Angina", "Non-anginal Pain", "Asymptomatic"} |->
        CASE k = "Typical Angina" -> 1
          [] k = "Atypical Angina" -> 2
          [] k = "Non-anginal Pain" -> 3
          [] k = "Asymptomatic" -> 4]

restecg_map ==
    [k \in {"Normal", "ST-T abnormality", "LV hypertrophy"} |->
        CASE k = "Normal" -> 0
          [] k = "ST-T abnormality" -> 1
          [] k = "LV hypertrophy" -> 2]

slope_map ==
    [k \in {"Upsloping", "Flat", "Downsloping"} |->
        CASE k = "Upsloping" -> 1
          [] k = "Flat" -> 2
          [] k = "Downsloping" -> 3]

thal_map ==
    [k \in {"Normal", "Fixed Defect", "Reversible Defect"} |->
        CASE k = "Normal" -> 3
          [] k = "Fixed Defect" -> 6
          [] k = "Reversible Defect" -> 7]

\* line 61
sex(gender) == IF gender = "Male" THEN 1 ELSE 0

fbs_inclusive(glucose) == IF glucose >= 120 THEN 1 ELSE 0

\* line 62
fbs(glucose) == IF glucose > 120 THEN 1 ELSE 0

\* line 63
exang(selection) == IF selection = "Yes" THEN 1 ELSE 0

processed_swapped(in) ==
    << FloatOfInt(in.age),
       PyInt(sex(in.gender)),
       PyInt(DictGet(cp_map, in.cp, 4)),
       FloatOfInt(in.trestbps),
       FloatOfInt(in.chol),
       PyInt(fbs(in.glucose)),
       PyInt(DictGet(restecg_map, in.restecg, 0)),
       PyInt(exang(in.exang)),
       FloatOfInt(in.thalach),
       FloatOfFloat(in.oldpeak),
       PyInt(DictGet(slope_map, in.slope, 2)),
       FloatOfInt(in.ca),
       PyInt(DictGet(thal_map, in.thal, 3)) >>

\* The list `processed`, in the order the list literal gives it.
processed(in) ==
    << FloatOfInt(in.age),
       PyInt(sex(in.gender)),
       PyInt(DictGet(cp_map, in.cp, 4)),
       FloatOfInt(in.trestbps),
       FloatOfInt(in.chol),
       PyInt(fbs(in.glucose)),
       PyInt(DictGet(restecg_map, in.restecg, 0)),
       FloatOfInt(in.thalach),
       PyInt(exang(in.exang)),
       FloatOfFloat(in.oldpeak),
       PyInt(DictGet(slope_map, in.slope, 2)),
       FloatOfInt(in.ca),
       PyInt(DictGet(thal_map, in.thal, 3)) >>

\* pd.DataFrame([processed], columns=FEATURE_COLUMNS): the single row, as
\* the sequence of <<column, value>> pairs, column i labelling value i.
preprocess_inputs(in) ==
    LET row == processed(in)
    IN  [i \in 1..Len(row) |-> <<FEATURE_COLUMNS[i], row[i]>>]

-----------------------------------------------------------------------------
(* Model handles *)

(* A handle is what joblib.load returns for one artifact, described by the  *)
(* attributes the script probes:                                            *)
(*   readable     FALSE when joblib.load raises for the file                *)
(*   named_steps  "none": no such attribute (a bare estimator);             *)
(*                "model": a Pipeline with a step called "model";           *)
(*                "other": a Pipeline without a step of that name           *)
(*   fi           the estimator exposes feature_importances_                *)
(*   coef         "none": no coef_; "ok": coef_ of shape (1, 13);           *)
(*                "empty": coef_ with no row, so coef_[0] raises IndexError *)
(*   w            the estimator's 13 raw weights                            *)
(* fi, coef and w describe the estimator: the handle itself when            *)
(* named_steps is "none", the final step of the Pipeline otherwise.  A      *)
(* Pipeline object exposes neither feature_importances_ nor coef_.          *)

NF == Len(FEATURE_COLUMNS)

Handle(ns, fi, coef, w) ==
    [readable |-> TRUE, named_steps |-> ns, fi |-> fi, coef |-> coef, w |-> w]

ZeroW == [i \in 1..NF |-> 0]

Unreadable == [readable |-> FALSE, named_steps |-> "none", fi |-> FALSE,
               coef |-> "none", w |-> ZeroW]

\* the value of the local `model` before line 253 binds it
NoModel == [readable |-> FALSE, named_steps |-> "unbound", fi |-> FALSE,
            coef |-> "none", w |-> ZeroW]

\* x at position p, y at position q, z elsewhere
Weights(p, q, x, y, z) ==
    [i \in 1..NF |-> IF i = p THEN x ELSE IF i = q THEN y ELSE z]

RECURSIVE SumTo(_, _)
SumTo(f, k) == IF k = 0 THEN 0 ELSE f[k] + SumTo(f, k - 1)

Abs(x) == IF x < 0 THEN -x ELSE x

NaN == [n |-> 0, d |-> 0]

\* a < b on floats: FALSE as soon as one side is NaN
Less(a, b) == a.d > 0 /\ b.d > 0 /\ a.n * b.d < b.n * a.d

\* hasattr(model, "named_steps")
HasNamedSteps(h) == h.named_steps \in {"model", "other"}

\* the estimator `inner` of lines 115-117, as [fi, coef, w]
Inner(h) ==
    IF HasNamedSteps(h) /\ h.named_steps = "other"
    THEN [fi |-> FALSE, coef |-> "none", w |-> ZeroW]   \* .get("model", model) gives the Pipeline back
    ELSE [fi |-> h.fi, coef |-> h.coef, w |-> h.w]

\* inner.feature_importances_ as scikit-learn computes it: the weights
\* normalised to sum 1, or all 0.0 for a tree without a split
FeatureImportances(e) ==
    LET s == SumTo(e.w, NF)
    IN  [i \in 1..NF |-> IF s = 0 THEN [n |-> 0, d |-> 1] ELSE [n |-> e.w[i], d |-> s]]

\* np.abs(inner.coef_[0]) / np.sum(np.abs(inner.coef_[0])); numpy returns
\* NaN (with a RuntimeWarning, no exception) for 0.0 / 0.0
NormalisedCoef(e) ==
    LET s == SumTo([i \in 1..NF |-> Abs(e.w[i])], NF)
    IN  [i \in 1..NF |-> IF s = 0 THEN NaN ELSE [n |-> Abs(e.w[i]), d |-> s]]

\* extract_feature_importance raises (IndexError at coef_[0])
ExtractRaises(h) ==
    LET e == Inner(h) IN ~e.fi /\ e.coef = "empty"

\* the array `importance` of lines 119-125
ImportanceArray(h) ==
    LET e == Inner(h)
    IN  IF e.fi THEN FeatureImportances(e)
        ELSE IF e.coef = "ok" THEN NormalisedCoef(e)
        ELSE [i \in 1..NF |-> [n |-> 0, d |-> 1]]

\* sorted(items, key=score, reverse=True): stable, so items with equal
\* (or incomparable) scores keep their order
RECURSIVE InsertDesc(_, _)
InsertDesc(s, x) ==
    IF s = <<>> THEN <<x>>
    ELSE IF Less(Head(s)[2], x[2]) THEN <<x>> \o s
    ELSE <<Head(s)>> \o InsertDesc(Tail(s), x)

RECURSIVE SortedDesc(_, _)
SortedDesc(items, k) ==
    IF k = 0 THEN <<>> ELSE InsertDesc(SortedDesc(items, k - 1), items[k])

\* The returned dict, as its sequence of <<feature, score>> items.
extract_feature_importance(h) ==
    LET imp == ImportanceArray(h)
        feature_dict == [i \in 1..NF |-> <<FEATURE_COLUMNS[i], imp[i]>>]
    IN  SortedDesc(feature_dict, NF)

\* dict(list(importance.items())[:5])
Top5(items) == SubSeq(items, 1, IF Len(items) < 5 THEN Len(items) ELSE 5)

categorize_risk_inclusive(p) ==
    IF p <= 40 THEN "LOW"
    ELSE IF p <= 70 THEN "MODERATE"
    ELSE "HIGH"

\* categorize_risk, on hundredths
categorize_risk(p) ==
    IF p < 40 THEN "LOW"
    ELSE IF p < 70 THEN "MODERATE"
    ELSE "HIGH"

\* the gauge colour of lines 271-276
Color(level) ==
    IF level = "LOW" THEN "#22c55e"
    ELSE IF level = "MODERATE" THEN "#facc15"
    ELSE "#ef4444"

-----------------------------------------------------------------------------
(* The page *)

\* the widgets' initial values (the value argument, or the first option)
Defaults ==
    [age |-> 45, gender |-> "Male", cp |-> "Typical Angina", trestbps |-> 120,
     chol |-> 190, thalach |-> 150, glucose |-> 100, restecg |-> "Normal",
     exang |-> "No", oldpeak |-> 10, slope |-> "Upsloping", ca |-> 0,
     thal |-> "Normal"]

Fields == DOMAIN Defaults

\* The values explored for each widget: a subset of the widget's range or
\* option list (oldpeak in tenths).
WidgetValues ==
    [age |-> {45, 100}, gender |-> {"Male", "Female"},
     cp |-> {"Typical Angina", "Atypical Angina", "Non-anginal Pain", "Asymptomatic"},
     trestbps |-> {120}, chol |-> {190}, thalach |-> {150},
     glucose |-> {100, 121}, restecg |-> {"Normal"},
     exang |-> {"No", "Yes"}, oldpeak |-> {10}, slope |-> {"Upsloping"},
     ca |-> {0}, thal |-> {"Normal"}]

\* the probabilities predict_proba is taken to return, in hundredths
ProbValues == {0, 39, 40, 69, 70, 100}

Unbound == -1       \* the local `prob` before anything is assigned to it
NoSelection == "None"   \* st.selectbox over an empty option list returns None

\* The artifact sets explored: what the three pickles hold.
ArtifactSets ==
    LET mk(lr, dt, rf) ==
            [m \in ModelNames |->
                CASE m = "Logistic Regression" -> lr
                  [] m = "Decision Tree" -> dt
                  [] m = "Random Forest" -> rf]
        pipeLR == Handle("model", FALSE, "ok", Weights(3, 12, MaxCoef, -MaxCoef, 1))
        tree   == Handle("none", TRUE, "none", Weights(13, 3, MaxCoef, 1, 0))
        forest == Handle("none", TRUE, "none", Weights(12, 1, MaxCoef, MaxCoef, 1))
        flatLR == Handle("none", FALSE, "ok", ZeroW)
        opaque == Handle("other", FALSE, "ok", Weights(1, 2, 1, 1, 1))
        broken == Handle("none", FALSE, "empty", ZeroW)
    IN  { mk(pipeLR, tree, forest),
          mk(flatLR, opaque, broken),
          mk(pipeLR, Unreadable, forest),
          mk(Unreadable, Unreadable, Unreadable) }

load_models_partial(art) ==
    [m \in {k \in ModelNames : art[k].readable} |-> art[m]]

\* load_models: the dict of the three handles, or {} as soon as one
\* joblib.load raises
load_models(art) ==
    IF \A m \in ModelNames : art[m].readable
    THEN art
    ELSE [m \in {} |-> Unreadable]

\* list(all_models.keys())[0], the selectbox's initial value
FirstModel(reg) ==
    IF DOMAIN reg = {} THEN NoSelection ELSE "Logistic Regression"

\* round(value * 100, 2) in hundredths of a percent; round is half-to-even
Percent(s) ==
    IF s.d = 0 THEN [nan |-> TRUE, v |-> 0]
    ELSE LET q == (10000 * s.n) \div s.d
             r == (10000 * s.n) % s.d
         IN  [nan |-> FALSE,
              v |-> IF 2 * r < s.d THEN q
                    ELSE IF 2 * r > s.d THEN q + 1
                    ELSE IF q % 2 = 0 THEN q ELSE q + 1]

Blank == [visible |-> FALSE, level |-> "", color |-> "", factors |-> <<>>]

\* the result pane of lines 266-294
Render(S) ==
    IF S.analysis_run
    THEN LET level == categorize_risk(S.risk_prob)
         IN  [visible |-> TRUE, level |-> level, color |-> Color(level),
              factors |-> [i \in 1..Len(S.feature_imp) |->
                             <<S.feature_imp[i][1], Percent(S.feature_imp[i][2])>>]]
    ELSE Blank

\* the session fields with the history of who wrote them
Session ==
    [analysis_run |-> analysis_run, risk_prob |-> risk_prob,
     feature_imp |-> feature_imp, risk_prob_run |-> risk_prob_run,
     feature_imp_run |-> feature_imp_run]

SetSession(S) ==
    /\ analysis_run' = S.analysis_run
    /\ risk_prob' = S.risk_prob
    /\ feature_imp' = S.feature_imp
    /\ risk_prob_run' = S.risk_prob_run
    /\ feature_imp_run' = S.feature_imp_run

\* lines 22-27 on the first execution of a session
InitialSession ==
    [analysis_run |-> FALSE, risk_prob |-> 0, feature_imp |-> <<>>,
     risk_prob_run |-> 0, feature_imp_run |-> 0]

KeepSession_reset(S) == InitialSession

\* lines 22-27 on a later execution: the keys exist, nothing is assigned
KeepSession(S) == S

AbandonRun_partial(S, p) ==
    IF p = Unbound THEN S ELSE [S EXCEPT !.risk_prob = p]

\* lines 239-241 and 257-260: st.stop() ends the execution with the session
\* fields as they were; p is what `prob` held
AbandonRun(S, p) == S

StoreResult_stale(S, p, imp, run) ==
    IF S.analysis_run
    THEN [S EXCEPT !.risk_prob = p, !.risk_prob_run = run]
    ELSE [analysis_run |-> TRUE, risk_prob |-> p, feature_imp |-> Top5(imp),
          risk_prob_run |-> run, feature_imp_run |-> run]

\* lines 262-264
StoreResult(S, p, imp, run) ==
    [analysis_run |-> TRUE, risk_prob |-> p, feature_imp |-> Top5(imp),
     risk_prob_run |-> run, feature_imp_run |-> run]

TypeOK ==
    /\ analysis_run \in BOOLEAN
    /\ risk_prob \in ProbValues
    /\ button \in BOOLEAN
    /\ Len(feature_imp) <= 5
    /\ runs \in 0..MaxRuns

Init ==
    /\ artifacts \in ArtifactSets
    /\ all_models = load_models(artifacts)
    /\ inputs = Defaults
    /\ model_name = FirstModel(all_models)
    /\ analysis_run = InitialSession.analysis_run
    /\ risk_prob = InitialSession.risk_prob
    /\ feature_imp = InitialSession.feature_imp
    /\ risk_prob_run = 0
    /\ feature_imp_run = 0
    /\ button = FALSE
    /\ input_df = <<>>
    /\ model = NoModel
    /\ prob = Unbound
    /\ importance = <<>>
    /\ message = ""
    /\ detail = ""
    /\ shown = Blank
    /\ runs = 0

\* An execution in which the button was not pressed: the handler is skipped
\* and the pane is rendered from the session fields.
Rerender ==
    LET S == KeepSession(Session)
    IN  /\ button' = FALSE
        /\ SetSession(S)
        /\ input_df' = <<>>
        /\ model' = NoModel
        /\ importance' = <<>>
        /\ prob' = IF S.analysis_run THEN S.risk_prob ELSE Unbound
        /\ message' = ""
        /\ detail' = ""
        /\ shown' = Render(S)
        /\ UNCHANGED <<artifacts, all_models, runs>>

\* the user changes one of the 13 input widgets
ChangeInput ==
    /\ \E f \in Fields : \E v \in WidgetValues[f] \ {inputs[f]} :
          inputs' = [inputs EXCEPT ![f] = v]
    /\ UNCHANGED model_name
    /\ Rerender

\* the user picks another model
ChangeModel ==
    /\ \E m \in DOMAIN all_models \ {model_name} : model_name' = m
    /\ UNCHANGED inputs
    /\ Rerender

\* the button is pressed and the selection is not a loaded model
RunRejected ==
    /\ runs < MaxRuns
    /\ model_name \notin DOMAIN all_models
    /\ button' = TRUE
    /\ runs' = runs + 1
    /\ SetSession(AbandonRun(KeepSession(Session), Unbound))
    /\ input_df' = <<>>
    /\ model' = NoModel
    /\ prob' = Unbound
    /\ importance' = <<>>
    /\ message' = "Model not loaded properly."
    /\ detail' = ""
    /\ shown' = Blank
    /\ UNCHANGED <<artifacts, all_models, inputs, model_name>>

\* the button is pressed and the try block raises: predict_proba raises
\* (nothing in the script decides that), or extract_feature_importance does
RunFailed ==
    /\ runs < MaxRuns
    /\ model_name \in DOMAIN all_models
    /\ button' = TRUE
    /\ runs' = runs + 1
    /\ input_df' = preprocess_inputs(inputs)
    /\ model' = all_models[model_name]
    /\ \/ /\ prob' = Unbound
          /\ detail' = "predict_proba"
       \/ /\ prob' \in ProbValues
          /\ ExtractRaises(model')
          /\ detail' = "IndexError"
    /\ importance' = <<>>
    /\ SetSession(AbandonRun(KeepSession(Session), prob'))
    /\ message' = "Prediction failed."
    /\ shown' = Blank
    /\ UNCHANGED <<artifacts, all_models, inputs, model_name>>

\* the button is pressed and the try block completes
RunSucceeded ==
    /\ runs < MaxRuns
    /\ model_name \in DOMAIN all_models
    /\ ~ExtractRaises(all_models[model_name])
    /\ button' = TRUE
    /\ runs' = runs + 1
    /\ input_df' = preprocess_inputs(inputs)
    /\ model' = all_models[model_name]
    /\ importance' = extract_feature_importance(model')
    /\ \E p \in ProbValues :
          LET S == StoreResult(KeepSession(Session), p, importance', runs')
          IN  /\ SetSession(S)
              /\ prob' = S.risk_prob
              /\ shown' = Render(S)
    /\ message' = ""
    /\ detail' = ""
    /\ UNCHANGED <<artifacts, all_models, inputs, model_name>>

Next == ChangeInput \/ ChangeModel \/ RunRejected \/ RunFailed \/ RunSucceeded

Spec == Init /\ [][Next]_vars

-----------------------------------------------------------------------------
(* preprocess_inputs called on its own *)

\* the numeric arguments explored together: the widgets' defaults, their
\* minima, their maxima and a mixed record (oldpeak in tenths)
NumericProfiles ==
    { [age |-> 45, trestbps |-> 120, chol |-> 190, thalach |-> 150, oldpeak |-> 10, ca |-> 0],
      [age |-> 1, trestbps |-> 80, chol |-> 100, thalach |-> 40, oldpeak |-> 0, ca |-> 0],
      [age |-> 100, trestbps |-> 200, chol |-> 400, thalach |-> 200, oldpeak |-> 60, ca |-> 4],
      [age |-> 63, trestbps |-> 145, chol |-> 233, thalach |-> 151, oldpeak |-> 23, ca |-> 2] }

GlucoseValues == {50, 100, 119, 120, 121, 150, 300}

\* the widgets' option lists
GenderOptions == {"Male", "Female"}
CpOptions == {"Typical Angina", "Atypical Angina", "Non-anginal Pain", "Asymptomatic"}
RestecgOptions == {"Normal", "ST-T abnormality", "LV hypertrophy"}
ExangOptions == {"No", "Yes"}
SlopeOptions == {"Upsloping", "Flat", "Downsloping"}
ThalOptions == {"Normal", "Fixed Defect", "Reversible Defect"}

\* strings no table and no option list holds
Unmapped == {"Unknown", "yes"}

\* the arguments explored: every option and every unmapped string for the
\* categorical ones
EncInputs ==
    { [age |-> np.age, gender |-> g, cp |-> c, trestbps |-> np.trestbps,
       chol |-> np.chol, thalach |-> np.thalach, glucose |-> gl, restecg |-> r,
       exang |-> e, oldpeak |-> np.oldpeak, slope |-> sl, ca |-> np.ca, thal |-> t] :
      np \in NumericProfiles, g \in GenderOptions \cup {"Unknown"},
      c \in CpOptions \cup {"Unknown"}, gl \in GlucoseValues,
      r \in RestecgOptions \cup {"Unknown"}, e \in ExangOptions \cup Unmapped,
      sl \in SlopeOptions \cup {"Unknown"}, t \in ThalOptions \cup {"Unknown"} }

InitEnc ==
    /\ inputs \in EncInputs
    /\ artifacts \in {a \in ArtifactSets : \A m \in ModelNames : ~a[m].readable}
    /\ all_models = load_models(artifacts)
    /\ model_name = FirstModel(all_models)
    /\ analysis_run = InitialSession.analysis_run
    /\ risk_prob = InitialSession.risk_prob
    /\ feature_imp = InitialSession.feature_imp
    /\ risk_prob_run = 0
    /\ feature_imp_run = 0
    /\ button = FALSE
    /\ input_df = <<>>
    /\ model = NoModel
    /\ prob = Unbound
    /\ importance = <<>>
    /\ message = ""
    /\ detail = ""
    /\ shown = Blank
    /\ runs = 0

CallPreprocess ==
    /\ input_df = <<>>
    /\ input_df' = preprocess_inputs(inputs)
    /\ UNCHANGED <<artifacts, all_models, inputs, model_name, analysis_run,
                   risk_prob, feature_imp, button, model, prob, importance,
                   message, detail, shown, runs, risk_prob_run, feature_imp_run>>

NextEnc == CallPreprocess

SpecEnc == InitEnc /\ [][NextEnc]_vars

-----------------------------------------------------------------------------
(* extract_feature_importance called on its own *)

CoefRange == (0 - MaxCoef)..MaxCoef

WeightFamily ==
    { Weights(p, q, x, y, z) :
        p \in {1, 7, 13}, q \in {2, 12}, x \in CoefRange, y \in CoefRange, z \in CoefRange }

\* the handles explored; feature_importances_ is never negative in scikit-learn
HandleFamily ==
    { Handle(ns, fi, coef, w) :
        ns \in {"none", "model", "other"}, fi \in BOOLEAN,
        coef \in {"none", "ok", "empty"},
        w \in WeightFamily } \ 
    { h \in { Handle(ns, TRUE, coef, w) :
                ns \in {"none", "model", "other"}, coef \in {"none", "ok", "empty"},
                w \in WeightFamily } : \E i \in 1..NF : h.w[i] < 0 }

InitFI ==
    /\ model \in HandleFamily
    /\ inputs = Defaults
    /\ artifacts \in {a \in ArtifactSets : \A m \in ModelNames : ~a[m].readable}
    /\ all_models = load_models(artifacts)
    /\ model_name = FirstModel(all_models)
    /\ analysis_run = InitialSession.analysis_run
    /\ risk_prob = InitialSession.risk_prob
    /\ feature_imp = InitialSession.feature_imp
    /\ risk_prob_run = 0
    /\ feature_imp_run = 0
    /\ button = FALSE
    /\ input_df = <<>>
    /\ prob = Unbound
    /\ importance = <<>>
    /\ message = ""
    /\ detail = ""
    /\ shown = Blank
    /\ runs = 0

CallExtract ==
    /\ importance = <<>>
    /\ ~ExtractRaises(model)
    /\ importance' = extract_feature_importance(model)
    /\ UNCHANGED <<artifacts, all_models, inputs, model_name, analysis_run,
                   risk_prob, feature_imp, button, input_df, model, prob,
                   message, detail, shown, runs, risk_prob_run, feature_imp_run>>

CallExtractRaises ==
    /\ detail = ""
    /\ ExtractRaises(model)
    /\ detail' = "IndexError"
    /\ UNCHANGED <<artifacts, all_models, inputs, model_name, analysis_run,
                   risk_prob, feature_imp, button, input_df, model, prob,
                   importance, message, shown, runs, risk_prob_run,
                   feature_imp_run>>

NextFI == CallExtract \/ CallExtractRaises

SpecFI == InitFI /\ [][NextFI]_vars

-----------------------------------------------------------------------------
(* Properties *)

SessionFields == <<analysis_run, risk_prob, feature_imp>>

\* the execution pressed the button and reached line 262
RunCompleted == button /\ message = ""

\* a >= b on floats: FALSE as soon as one side is NaN
GreaterEq(a, b) == a.d > 0 /\ b.d > 0 /\ a.n * b.d >= b.n * a.d

\* the numeric values of an encoded row, in tenths
Values(df) == [i \in 1..Len(df) |-> Val(df[i][2])]
Labels(df) == [i \in 1..Len(df) |-> df[i][1]]

\* C1: a run that ends in "Prediction failed." leaves analysis_run,
\* risk_prob and feature_imp exactly as they were before the run, also when
\* predict_risk had already produced a probability.
C1_FailedRunKeepsSession ==
    [][ (button' /\ message' = "Prediction failed.")
            => SessionFields' = SessionFields ]_vars

\* a failed run over an evaluated session, failing after predict_risk
\* returned a probability other than the stored one
C1_Witness ==
    /\ button /\ message = "Prediction failed." /\ detail = "IndexError"
    /\ analysis_run
    /\ prob # Unbound /\ prob # risk_prob

\* C2: the session starts idle; analysis_run, risk_prob and feature_imp
\* change only in an execution that completes a run, which leaves the
\* session evaluated and holding that run's result; an evaluated session
\* never becomes idle again.
C2_IdleToEvaluated ==
    /\ (~analysis_run /\ risk_prob = 0 /\ feature_imp = <<>>)
    /\ [][ /\ analysis_run => analysis_run'
           /\ SessionFields' # SessionFields => RunCompleted'
           /\ RunCompleted' => /\ analysis_run'
                               /\ risk_prob' = prob'
                               /\ feature_imp' = Top5(importance')
           /\ analysis_run' \in BOOLEAN ]_vars

\* a second completed run has overwritten the result of the first, and the
\* user has since changed a widget
C2_Witness ==
    /\ analysis_run /\ risk_prob_run = 2 /\ ~button
    /\ inputs # Defaults

\* C3: categorize_risk is the step function with thresholds 0.40 and 0.70,
\* and a rendered pane shows the tier of the stored risk_prob in green,
\* yellow or red.
C3_TierStepFunction ==
    /\ \A p \in 0..100 :
          /\ categorize_risk(p) = "LOW" <=> p < 40
          /\ categorize_risk(p) = "MODERATE" <=> (40 <= p /\ p < 70)
          /\ categorize_risk(p) = "HIGH" <=> p >= 70
    /\ shown.visible =>
          /\ analysis_run
          /\ risk_prob < 40 => shown.level = "LOW" /\ shown.color = "#22c55e"
          /\ (40 <= risk_prob /\ risk_prob < 70) =>
                shown.level = "MODERATE" /\ shown.color = "#facc15"
          /\ risk_prob >= 70 => shown.level = "HIGH" /\ shown.color = "#ef4444"
    /\ (analysis_run /\ message = "") => shown.visible

\* an evaluated session rendered with the probability on the lower threshold
C3_Witness ==
    shown.visible /\ risk_prob = 40 /\ shown.level = "MODERATE"

ValidInputs(in) ==
    /\ in.gender \in GenderOptions /\ in.cp \in CpOptions
    /\ in.restecg \in RestecgOptions /\ in.exang \in ExangOptions
    /\ in.slope \in SlopeOptions /\ in.thal \in ThalOptions
    /\ in.age \in 1..100 /\ in.trestbps \in 80..200 /\ in.chol \in 100..400
    /\ in.thalach \in 40..200 /\ in.glucose \in 50..300
    /\ in.oldpeak \in 0..60 /\ in.ca \in 0..4

\* C4: for valid inputs the encoded row has the 13 columns in the fixed
\* order, the flags and codes of the tables and the numeric inputs
\* unchanged; the default inputs encode to [45,1,1,120,190,0,0,150,0,1.0,1,0,3].
C4_FixedOrderEncoding ==
    (input_df # <<>> /\ ValidInputs(inputs)) =>
        LET v == Values(input_df)
            in == inputs
        IN  /\ Len(input_df) = 13
            /\ Labels(input_df) =
                 <<"age", "sex", "cp", "trestbps", "chol", "fbs", "restecg",
                   "thalach", "exang", "oldpeak", "slope", "ca", "thal">>
            /\ v[1] = 10 * in.age
            /\ v[2] = (IF in.gender = "Male" THEN 10 ELSE 0)
            /\ v[3] = (CASE in.cp = "Typical Angina" -> 10
                         [] in.cp = "Atypical Angina" -> 20
                         [] in.cp = "Non-anginal Pain" -> 30
                         [] in.cp = "Asymptomatic" -> 40)
            /\ v[4] = 10 * in.trestbps
            /\ v[5] = 10 * in.chol
            /\ v[6] \in {0, 10}
            /\ v[7] = (CASE in.restecg = "Normal" -> 0
                         [] in.restecg = "ST-T abnormality" -> 10
                         [] in.restecg = "LV hypertrophy" -> 20)
            /\ v[8] = 10 * in.thalach
            /\ v[9] = (IF in.exang = "Yes" THEN 10 ELSE 0)
            /\ v[10] = in.oldpeak
            /\ v[11] = (CASE in.slope = "Upsloping" -> 10
                          [] in.slope = "Flat" -> 20
                          [] in.slope = "Downsloping" -> 30)
            /\ v[12] = 10 * in.ca
            /\ v[13] = (CASE in.thal = "Normal" -> 30
                          [] in.thal = "Fixed Defect" -> 60
                          [] in.thal = "Reversible Defect" -> 70)
            /\ in = Defaults =>
                 v = <<450, 10, 10, 1200, 1900, 0, 0, 1500, 0, 10, 10, 0, 30>>

\* the documented scenario has been encoded
C4_Witness ==
    /\ input_df # <<>> /\ inputs = Defaults
    /\ Values(input_df)[8] = 1500 /\ Values(input_df)[9] = 0

\* the position of each categorical argument in the row, its option list
\* and its documented fallback (in tenths)
Categorical ==
    { [f |-> "gender", i |-> 2, options |-> GenderOptions, fallback |-> 0],
      [f |-> "cp", i |-> 3, options |-> CpOptions, fallback |-> 40],
      [f |-> "restecg", i |-> 7, options |-> RestecgOptions, fallback |-> 0],
      [f |-> "exang", i |-> 9, options |-> ExangOptions, fallback |-> 0],
      [f |-> "slope", i |-> 11, options |-> SlopeOptions, fallback |-> 20],
      [f |-> "thal", i |-> 13, options |-> ThalOptions, fallback |-> 30] }

\* C5: a categorical argument outside its table is encoded as the
\* documented default (cp 4, restecg 0, slope 2, thal 3, sex 0, exang 0),
\* the row is still produced, and its other 12 fields are those of the same
\* arguments with a mapped value in that place.
C5_UnmappedFallsBack ==
    input_df # <<>> =>
        /\ Len(input_df) = 13
        /\ inputs.gender # "Male" => Values(input_df)[2] = 0
        /\ inputs.exang # "Yes" => Values(input_df)[9] = 0
        /\ \A c \in Categorical :
              inputs[c.f] \notin c.options =>
                  /\ Values(input_df)[c.i] = c.fallback
                  /\ \A m \in c.options : \A j \in (1..13) \ {c.i} :
                        input_df[j] = preprocess_inputs([inputs EXCEPT ![c.f] = m])[j]

\* a row encoded from an unknown chest-pain and an unknown thalassemia string
C5_Witness ==
    /\ input_df # <<>>
    /\ inputs.cp \notin CpOptions /\ inputs.thal \notin ThalOptions
    /\ inputs.gender \in GenderOptions

\* C6: over the slider's range the fasting-blood-sugar flag is 1 exactly
\* when glucose > 120: 120 gives 0, 121 gives 1, 150 gives 1.
C6_FbsBoundaryExclusive ==
    (input_df # <<>> /\ inputs.glucose \in 50..300) =>
        /\ \A g \in 50..300 : fbs(g) = (IF g > 120 THEN 1 ELSE 0)
        /\ input_df[6] \in {<<"fbs", PyInt(0)>>, <<"fbs", PyInt(1)>>}
        /\ input_df[6][2].v = 1 <=> inputs.glucose > 120
        /\ inputs.glucose = 120 => input_df[6][2].v = 0
        /\ inputs.glucose = 121 => input_df[6][2].v = 1
        /\ inputs.glucose = 150 => input_df[6][2].v = 1

\* a row encoded from glucose exactly on the boundary
C6_Witness ==
    input_df # <<>> /\ inputs.glucose = 120 /\ input_df[6][2].v = 0

NonNegative(s) == s.d > 0 /\ s.n >= 0
IsZero(s) == s.d > 0 /\ s.n = 0

RECURSIVE SumScores(_, _)
\* the sum of the first k scores of a mapping whose scores share one denominator
SumScores(items, k) == IF k = 0 THEN 0 ELSE items[k][2].n + SumScores(items, k - 1)

SumsToOne(items) ==
    /\ \A i \in 1..Len(items) : items[i][2].d = items[1][2].d
    /\ items[1][2].d > 0
    /\ SumScores(items, Len(items)) = items[1][2].d

\* C7: extract_feature_importance returns 13 entries, one per feature, each
\* non-negative; they sum to 1 when the unwrapped estimator exposes only
\* coefficients and are all 0 when it exposes neither attribute.
C7_ThirteenNormalisedScores ==
    importance # <<>> =>
        /\ Len(importance) = 13
        /\ {importance[i][1] : i \in 1..Len(importance)} =
              {FEATURE_COLUMNS[i] : i \in 1..13}
        /\ \A i \in 1..Len(importance) : NonNegative(importance[i][2])
        /\ (~Inner(model).fi /\ Inner(model).coef = "ok") => SumsToOne(importance)
        /\ (~Inner(model).fi /\ Inner(model).coef = "none") =>
              \A i \in 1..Len(importance) : IsZero(importance[i][2])

\* C8: the returned mapping is in descending score order; a completed run
\* stores its first 5 entries, so stored scores are in non-increasing order
\* and at least every score left out; a model with neither attribute is
\* shown with 0% on every line.
C8_TopFiveDescending ==
    /\ Len(feature_imp) <= 5
    /\ RunCompleted =>
          /\ \A i, j \in 1..Len(importance) :
                i < j => GreaterEq(importance[i][2], importance[j][2])
          /\ feature_imp = SubSeq(importance, 1, 5)
          /\ \A i \in 1..Len(feature_imp) : \A j \in 6..Len(importance) :
                GreaterEq(feature_imp[i][2], importance[j][2])
          /\ (~Inner(model).fi /\ Inner(model).coef = "none") =>
                \A i \in 1..Len(shown.factors) :
                    shown.factors[i][2] = [nan |-> FALSE, v |-> 0]
    /\ \A i, j \in 1..Len(feature_imp) :
          i < j => GreaterEq(feature_imp[i][2], feature_imp[j][2])

\* C9: if one artifact cannot be loaded the registry is empty, and with an
\* empty registry every run is rejected before encoding or inference and the
\* session stays idle with its initial fields.
C9_EmptyRegistryNeverEvaluates ==
    /\ (\E m \in ModelNames : ~artifacts[m].readable) => DOMAIN all_models = {}
    /\ DOMAIN all_models = {} =>
          /\ ~analysis_run /\ risk_prob = 0 /\ feature_imp = <<>>
          /\ input_df = <<>> /\ prob = Unbound /\ importance = <<>>
          /\ button => message = "Model not loaded properly."
          /\ ~shown.visible

\* a run rejected because one of the three artifacts was unreadable
C9_Witness ==
    /\ \E m \in ModelNames : ~artifacts[m].readable
    /\ \E m \in ModelNames : artifacts[m].readable
    /\ button /\ message = "Model not loaded properly." /\ runs >= 2

\* C10: an idle session holds risk_prob 0.0 and an empty feature_imp; in an
\* evaluated session risk_prob and feature_imp were written by the same
\* completed run, and right after that run they are the probability and the
\* top 5 importances computed from the selected model and the encoded inputs.
C10_SessionFieldsConsistent ==
    /\ ~analysis_run =>
          /\ risk_prob = 0 /\ feature_imp = <<>>
          /\ risk_prob_run = 0 /\ feature_imp_run = 0
    /\ analysis_run =>
          /\ risk_prob_run = feature_imp_run
          /\ risk_prob_run \in 1..runs
    /\ RunCompleted =>
          /\ analysis_run /\ risk_prob_run = runs
          /\ model = all_models[model_name]
          /\ input_df = preprocess_inputs(inputs)
          /\ risk_prob = prob
          /\ feature_imp = Top5(extract_feature_importance(all_models[model_name]))

\* the result of the second run is held while a third run has failed
C10_Witness ==
    /\ analysis_run /\ risk_prob_run = 2 /\ runs = 3
    /\ message = "Prediction failed."

====
